---- MODULE Spec2Model ----
(***************************************************************************)
(* networkzero: the socket registry and the timeout-polling receive of     *)
(* networkzero/sockets.py (class Sockets) and the older registry and       *)
(* receive of networkzero/messaging.py (class Sockets), side by side.      *)
(*                                                                         *)
(* A socket is identified by its index in socks, the table of every socket *)
(* context.socket() has handed out.  The transport (zmq) is the            *)
(* environment: a bind or a connect may fail, a bind on a tcp address that *)
(* a live socket of this process has already bound always fails, and       *)
(* messages arrive at a socket whenever its peers send them.  A socket     *)
(* that an exception leaves unreferenced is freed.  The serialisation of   *)
(* messages and of notifications (topic, delimiter, data) is modelled on   *)
(* sequences of bytes.                                                     *)
(*                                                                         *)
(* A timeout in seconds is held as a whole number of microseconds, so that *)
(* int(1000 * timeout_secs) truncates as it does in the code.              *)
(***************************************************************************)
EXTENDS Integers, Sequences, FiniteSets, TLC

\* ------------------------------------------------------------ bounds
MaxSockets == 3
NumThreads == 2
MaxPending == 1
MaxPolls == 4
MaxTimeoutMs == 1200
MaxTopicLen == 2

Threads == 1 .. NumThreads
\* The thread that makes the calls when there is one caller at a time.
MainThread == CHOOSE t \in Threads : \A u \in Threads : t <= u

\* ------------------------------------------------------------ zmq socket types
REQ == "REQ"
REP == "REP"
PUB == "PUB"
SUB == "SUB"
Types == {REQ, REP, PUB, SUB}

NoSocket == 0

\* config.FOREVER, the wait-forever timeout (None in the code).
FOREVER == -1

try_length_ms == 500

\* The timeouts, in microseconds, that the verbs are called with.
TimeoutSecs == {0, 200500, 500000, 1000000, 1200000, FOREVER}

\* The timeouts that the functions of messaging.py are called with, which
\* tell only FOREVER from the rest.
M_TimeoutSecs == {100000, FOREVER}

\* ------------------------------------------------------------ addresses
\* Two spellings of one endpoint and a second endpoint.
RawAddresses == {"127.0.0.1:9000", "localhost:9000", "127.0.0.1:9001"}

\* The addresses the verbs are called with.
VerbAddresses == {"127.0.0.1:9000", "localhost:9000"}

\* core.address: the canonical ip:port form of an address.
core_address(a) == IF a = "localhost:9000" THEN "127.0.0.1:9000" ELSE a

Addresses == {core_address(a) : a \in RawAddresses}
Keys == Addresses \X Types

\* ------------------------------------------------------------ serialisation
\* A topic is a sequence of characters, held as code points: NUL, "a", "b"
\* and e-acute.  Bytes are numbers 0 .. 255.
Chars == {0, 97, 98, 233}

RECURSIVE SeqsUpTo(_, _)
SeqsUpTo(S, n) ==
    IF n = 0 THEN {<<>>}
    ELSE LET shorter == SeqsUpTo(S, n - 1)
         IN shorter \cup {Append(q, c) : q \in shorter, c \in S}

Topics == SeqsUpTo(Chars, MaxTopicLen)

\* The values that are sent as data.
Values == {0, 1, 256}

\* str.encode(config.ENCODING), the encoding being UTF-8: one byte for a
\* code point below 128 and two for one below 2048.
RECURSIVE str_encode(_)
str_encode(str) ==
    IF str = <<>> THEN <<>>
    ELSE LET c == Head(str)
         IN (IF c < 128 THEN <<c>> ELSE <<192 + (c \div 64), 128 + (c % 64)>>)
            \o str_encode(Tail(str))

\* What bytes.decode gives for bytes that are not UTF-8.
DecodeError == <<-1>>

\* bytes.decode(config.ENCODING).
RECURSIVE bytes_decode(_)
bytes_decode(bytes) ==
    IF bytes = <<>> THEN <<>>
    ELSE IF Head(bytes) < 128
         THEN LET rest == bytes_decode(Tail(bytes))
              IN IF rest = DecodeError THEN DecodeError ELSE <<Head(bytes)>> \o rest
    ELSE IF /\ Head(bytes) \in 194 .. 223
            /\ Len(bytes) >= 2
            /\ bytes[2] \in 128 .. 191
         THEN LET rest == bytes_decode(Tail(Tail(bytes)))
              IN IF rest = DecodeError THEN DecodeError
                 ELSE <<(Head(bytes) - 192) * 64 + (bytes[2] - 128)>> \o rest
    ELSE DecodeError

\* _serialise, line 12: marshal.dumps of a small non-negative integer, the
\* type code of an int and its four bytes, the lowest first.
serialise(message) ==
    <<233, message % 256, (message \div 256) % 256,
      (message \div 65536) % 256, (message \div 16777216) % 256>>

\* What marshal.loads gives for bytes it cannot load.
BadMarshal == -1

\* _unserialise, line 15: marshal.loads.
unserialise(message_bytes) ==
    IF Len(message_bytes) = 5 /\ message_bytes[1] = 233
    THEN message_bytes[2] + 256 * message_bytes[3] + 65536 * message_bytes[4]
         + 16777216 * message_bytes[5]
    ELSE BadMarshal

PUBSUB_DELIMETER == <<0>>

\* _serialise_for_pubsub, lines 19-22.
serialise_for_pubsub(topic, data) ==
    str_encode(topic) \o PUBSUB_DELIMETER \o serialise(data)

\* The places of the delimiter in the bytes.
Delimiters(bytes) == {i \in DOMAIN bytes : <<bytes[i]>> = PUBSUB_DELIMETER}

\* What unpacking the split gives, the split being at place at: the topic
\* decoded and the data unserialised.
Unpacked(message_bytes, at) ==
    [err |-> "",
     topic |-> bytes_decode(SubSeq(message_bytes, 1, at - 1)),
     data |-> unserialise(SubSeq(message_bytes, at + 1, Len(message_bytes)))]

\* _unserialise_for_pubsub that splits at the last delimiter (rsplit).
unserialise_for_pubsub_rsplit(message_bytes) ==
    IF Delimiters(message_bytes) = {}
    THEN [err |-> "ValueError", topic |-> <<>>, data |-> BadMarshal]
    ELSE Unpacked(message_bytes,
                  CHOOSE i \in Delimiters(message_bytes) :
                      \A j \in Delimiters(message_bytes) : j <= i)

\* _unserialise_for_pubsub, lines 24-26: split(PUBSUB_DELIMETER, maxsplit=1)
\* splits at the first delimiter; without one the unpacking into two names
\* raises ValueError.
unserialise_for_pubsub(message_bytes) ==
    IF Delimiters(message_bytes) = {}
    THEN [err |-> "ValueError", topic |-> <<>>, data |-> BadMarshal]
    ELSE Unpacked(message_bytes,
                  CHOOSE i \in Delimiters(message_bytes) :
                      \A j \in Delimiters(message_bytes) : i <= j)

\* p is a prefix of q.
IsPrefix(p, q) == Len(p) <= Len(q) /\ SubSeq(q, 1, Len(p)) = p

VARIABLES
    socks,      \* every socket created so far: <<record>>, index = identity
    s_sockets,  \* sockets.Sockets._sockets: (caddress, type) -> socket
    s_poller,   \* sockets.Sockets._poller: the registered sockets
    pc,         \* per thread: where it stands in its call into sockets.py
    op,         \* per thread: the function of sockets.py it called
    largs,      \* per thread: the key (caddress, type) of the call in progress
    lsocket,    \* per thread: the local variable socket
    rx,         \* per thread: the locals of _receive_with_timeout
    ret,        \* per thread: how its last call ended
    m_sockets,  \* messaging.Sockets._sockets: address -> socket
    m_poller,   \* messaging.Sockets._poller
    m_pc,       \* where the caller of messaging.py stands
    m_op,       \* the function of messaging.py it called
    m_args,     \* the (address, type) of its call
    m_lsocket,  \* its local variable socket
    m_timeout,  \* its argument timeout_secs
    m_ret,      \* how its last call ended
    m_trace,    \* what its call has done so far, in order
    it,         \* a generator made by intervals_ms and what it has yielded
    env         \* a notification: its topic and data, its bytes, what they give

vars == <<socks, s_sockets, s_poller, pc, op, largs, lsocket, rx, ret,
          m_sockets, m_poller, m_pc, m_op, m_args, m_lsocket, m_timeout, m_ret,
          m_trace, it, env>>
s_vars == <<s_sockets, s_poller, pc, op, largs, lsocket, rx, ret>>
m_vars == <<m_sockets, m_poller, m_pc, m_op, m_args, m_lsocket, m_timeout, m_ret,
            m_trace>>

\* ------------------------------------------------------------ results of a call
NoKey == <<"", "">>
NoResult ==
    [kind |-> "none", key |-> NoKey, sock |-> NoSocket, err |-> "", val |-> "",
     topic |-> <<>>, data |-> BadMarshal]
\* get_socket returned socket s.
Returned(k, s) == [NoResult EXCEPT !.kind = "socket", !.key = k, !.sock = s]
\* A verb returned the value v.
Value(k, v) == [NoResult EXCEPT !.kind = "value", !.key = k, !.val = v]
\* A verb returned the message it received, unserialised.
Message(k, data) == [Value(k, "message") EXCEPT !.data = data]
\* wait_for_notification returned the pair (topic, data).
News(k, topic, data) ==
    [Value(k, "(topic, data)") EXCEPT !.topic = topic, !.data = data]
\* The call raised the exception e.
Raised(k, e) == [NoResult EXCEPT !.kind = "error", !.key = k, !.err = e]

\* ------------------------------------------------------------ transport
\* context.socket(type): a fresh socket, neither bound nor connected.  A REQ
\* socket starts ready to send and a REP socket ready to receive; a PUB
\* socket can always send and a SUB socket never.  inbox holds the messages
\* that have arrived and wait to be received, subs the prefixes a SUB socket
\* has subscribed to.
context_socket(type) ==
    [type |-> type, address |-> "", connected |-> FALSE, bound |-> FALSE,
     fsm |-> IF type \in {REQ, PUB} THEN "send" ELSE "recv", inbox |-> <<>>,
     subs |-> {}]

\* A live socket of this process has bound the tcp endpoint of address a.
AddressInUse(a) ==
    \E i \in DOMAIN socks :
        socks[i].bound /\ core_address(socks[i].address) = core_address(a)

\* The outcomes the transport can produce for a connect or bind to a.
TransportOutcomes(type, a) ==
    IF type \in {REP, PUB} /\ AddressInUse(a) THEN {FALSE} ELSE BOOLEAN

\* Socket._set_address: record the address, then connect or bind by type.
\* ok is the transport's outcome; on failure the call raises after the
\* address has been recorded.
Socket_set_address(sock, address, ok) ==
    [sock EXCEPT !.address = address,
                 !.connected = ok /\ sock.type \in {REQ, SUB},
                 !.bound = ok /\ sock.type \in {REP, PUB}]

\* A socket nothing refers to any more is closed and freed: it keeps none
\* of its state, and its place in the table goes when it is the last.
Closed ==
    [type |-> "", address |-> "", connected |-> FALSE, bound |-> FALSE,
     fsm |-> "closed", inbox |-> <<>>, subs |-> {}]

Discard(i) ==
    IF i = Len(socks) THEN SubSeq(socks, 1, i - 1)
    ELSE [socks EXCEPT ![i] = Closed]

\* zmq's readiness of a socket: a message is waiting to be received
\* (POLLIN), or the socket is in its sending state (POLLOUT).
Readable(i) == socks[i].inbox # <<>> /\ socks[i].fsm = "recv"
Writable(i) == socks[i].fsm = "send"

\* poller.poll(): the registered sockets that are ready.  The poller
\* registers with its default flags, POLLIN | POLLOUT.
poll(poller) == {i \in poller : Readable(i) \/ Writable(i)}

\* socket.recv() on a socket with a message waiting: the socket after it.
\* A REP socket must send its reply next and a REQ socket may send again.
socket_recv(sock) ==
    [sock EXCEPT !.inbox = Tail(@),
                 !.fsm = IF sock.type \in {REQ, REP} THEN "send" ELSE @]

\* socket.recv() that takes a message from every socket that has one.
after_recv_from_all(socket) ==
    [i \in DOMAIN socks |->
        IF socks[i].inbox # <<>> /\ socks[i].fsm = "recv"
        THEN socket_recv(socks[i]) ELSE socks[i]]

\* The sockets after `return socket.recv()`, the receive from the one
\* socket the caller passed (sockets.py line 112, messaging.py lines 74, 78).
after_recv(socket) == [socks EXCEPT ![socket] = socket_recv(@)]

\* socket.send() on a socket in its sending state: the socket after it.
socket_send(sock) ==
    [sock EXCEPT !.fsm = IF sock.type \in {REQ, REP} THEN "recv" ELSE @]

\* ------------------------------------------------------------ intervals_ms
NoGen == [forever |-> FALSE, whole |-> 0, part |-> 0, stage |-> "none"]

\* intervals_ms with the whole intervals rounded up instead of down.
intervals_ms_rounded_up(timeout_ms) ==
    IF timeout_ms = FOREVER
    THEN [forever |-> TRUE, whole |-> 0, part |-> 0, stage |-> "run"]
    ELSE [forever |-> FALSE,
          whole |-> (timeout_ms + try_length_ms - 1) \div try_length_ms,
          part |-> timeout_ms % try_length_ms,
          stage |-> "run"]

\* intervals_ms(timeout_ms), lines 87-91: the generator before its first
\* next(): divmod(timeout_ms, try_length_ms) unless the timeout is FOREVER.
intervals_ms(timeout_ms) ==
    IF timeout_ms = FOREVER
    THEN [forever |-> TRUE, whole |-> 0, part |-> 0, stage |-> "run"]
    ELSE [forever |-> FALSE,
          whole |-> timeout_ms \div try_length_ms,
          part |-> timeout_ms % try_length_ms,
          stage |-> "run"]

\* The generator has yielded its last interval: next() raises StopIteration.
gen_exhausted(g) == g.stage = "end"

\* The interval the next next() yields (lines 89, 93, 94).
gen_yield(g) ==
    IF g.forever \/ g.whole > 0 THEN try_length_ms ELSE g.part

\* gen_advance that ends the generator without a zero-length last interval.
gen_advance_skip_zero(g) ==
    IF g.forever THEN g
    ELSE IF g.whole > 1 \/ (g.whole = 1 /\ g.part > 0)
         THEN [g EXCEPT !.whole = @ - 1]
    ELSE [g EXCEPT !.whole = 0, !.stage = "end"]

\* The generator after that next().
gen_advance(g) ==
    IF g.forever THEN g
    ELSE IF g.whole > 0 THEN [g EXCEPT !.whole = @ - 1]
    ELSE [g EXCEPT !.stage = "end"]

\* _receive_with_timeout, lines 104-107: int(1000 * timeout_secs), the
\* timeout being held in microseconds.
to_timeout_ms(timeout_secs) ==
    IF timeout_secs = FOREVER THEN FOREVER ELSE timeout_secs \div 1000

\* poller.poll(interval_ms) when the sockets in ready are ready as it is
\* called: it returns at once if any registered socket is ready, whichever
\* it is, and after interval_ms if none is.  The time, in ms, that it takes.
poll_wait(ready, interval_ms) == IF ready = {} THEN interval_ms ELSE 0

\* The locals of a receive, the time its polls have taken so far, whether
\* it has timed out, and whether its last poll reported other sockets ready.
NoRx ==
    [timeout_secs |-> 0, gen |-> NoGen, npolls |-> 0, interval |-> FOREVER,
     elapsed |-> 0, timedout |-> FALSE, topic |-> <<>>, others |-> FALSE]

\* No notification yet.
NoEnvelope ==
    [stage |-> "none", topic |-> <<>>, data |-> 0, bytes |-> <<>>,
     out |-> [err |-> "", topic |-> <<>>, data |-> 0]]

\* ------------------------------------------------------------ Init
Init ==
    /\ socks = <<>>
    /\ s_sockets = [k \in Keys |-> NoSocket]
    /\ s_poller = {}
    /\ pc = [t \in Threads |-> "idle"]
    /\ op = [t \in Threads |-> ""]
    /\ largs = [t \in Threads |-> NoKey]
    /\ lsocket = [t \in Threads |-> NoSocket]
    /\ rx = [t \in Threads |-> NoRx]
    /\ ret = [t \in Threads |-> NoResult]
    /\ m_sockets = [a \in RawAddresses |-> NoSocket]
    /\ m_poller = {}
    /\ m_pc = "idle"
    /\ m_op = ""
    /\ m_args = NoKey
    /\ m_lsocket = NoSocket
    /\ m_timeout = 0
    /\ m_ret = NoResult
    /\ m_trace = <<>>
    /\ it = [timeout_ms |-> 0, gen |-> NoGen, yielded |-> <<>>]
    /\ env = NoEnvelope

\* Sockets that a call in progress is still going to create.
Pending == Cardinality({t \in Threads : pc[t] = "socket"})

\* ------------------------------------------------------------ environment
\* The topics the peers publish ("ab"), the prefixes the callers subscribe
\* to ("a", which it begins with, and "b"), and the data of the peers'
\* messages.
NewsTopics == {<<97, 98>>}
Patterns == {<<97>>, <<98>>}
Payloads == {1}

\* The messages that can arrive at socket i: the bytes of a question or a
\* reply, and at a SUB socket the bytes of the news whose bytes begin with
\* one of the prefixes it has subscribed to.
Arrivals(i) ==
    IF socks[i].type = SUB
    THEN {serialise_for_pubsub(topic, data) : topic \in {tp \in NewsTopics :
              \E p \in socks[i].subs : IsPrefix(p, str_encode(tp))},
          data \in Payloads}
    ELSE {serialise(data) : data \in Payloads}

\* A peer's message arrives at socket i: a question at a bound REP socket,
\* the reply at a connected REQ socket that has sent its request, news at a
\* connected SUB socket.
Deliver(i) ==
    /\ i \in DOMAIN socks
    /\ Len(socks[i].inbox) < MaxPending
    /\ \/ socks[i].type = REP /\ socks[i].bound
       \/ socks[i].type = REQ /\ socks[i].connected /\ socks[i].fsm = "recv"
       \/ socks[i].type = SUB /\ socks[i].connected
    /\ \E message \in Arrivals(i) :
        socks' = [socks EXCEPT ![i].inbox = Append(@, message)]
    /\ UNCHANGED <<s_vars, m_vars, it, env>>

\* ------------------------------------------------------------ sockets.py
\* Entering Sockets.get_socket(address, type) on behalf of function f,
\* lines 70-71: normalise the address and look the key up.
S_enter(t, f, address, type, topic, timeout_secs) ==
    /\ pc[t] = "idle"
    /\ op' = [op EXCEPT ![t] = f]
    /\ LET key == <<core_address(address), type>> IN
       /\ largs' = [largs EXCEPT ![t] = key]
       /\ IF s_sockets[key] = NoSocket
          THEN /\ Len(socks) + Pending < MaxSockets
               /\ pc' = [pc EXCEPT ![t] = "socket"]
          ELSE pc' = [pc EXCEPT ![t] = "return"]
    /\ lsocket' = [lsocket EXCEPT ![t] = NoSocket]
    /\ rx' = [rx EXCEPT ![t] = [NoRx EXCEPT !.timeout_secs = timeout_secs,
                                            !.topic = topic]]
    /\ ret' = [ret EXCEPT ![t] = NoResult]
    /\ UNCHANGED <<socks, s_sockets, s_poller, m_vars, it, env>>

\* get_socket(address, type), the module's function (lines 149-150).
S_get_socket(t, address, type) ==
    S_enter(t, "get_socket", address, type, <<>>, 0)

\* wait_for_message(address, wait_for_s), line 117.
S_wait_for_message(t, address, wait_for_s) ==
    S_enter(t, "wait_for_message", address, REP, <<>>, wait_for_s)

\* send_message(address, request, wait_for_reply_secs), line 125.
S_send_message(t, address, wait_for_reply_secs) ==
    S_enter(t, "send_message", address, REQ, <<>>, wait_for_reply_secs)

\* send_reply(address, reply), line 130.
S_send_reply(t, address) ==
    S_enter(t, "send_reply", address, REP, <<>>, 0)

\* send_notification(address, topic, data), line 134.
S_send_notification(t, address) ==
    S_enter(t, "send_notification", address, PUB, <<>>, 0)

\* wait_for_notification(address, topic, wait_for_s), line 138.
S_wait_for_notification(t, address, topic, wait_for_s) ==
    S_enter(t, "wait_for_notification", address, SUB, topic, wait_for_s)

\* What stays on record of a receive x once its call has ended: its
\* timeout, the number of its polls, the interval of its last poll and the
\* time its polls took.
Ended(x) == [x EXCEPT !.gen = NoGen]

\* The call of thread t ends with result r: its locals are gone.
S_leave(t, r) ==
    /\ pc' = [pc EXCEPT ![t] = "idle"]
    /\ largs' = [largs EXCEPT ![t] = NoKey]
    /\ lsocket' = [lsocket EXCEPT ![t] = NoSocket]
    /\ ret' = [ret EXCEPT ![t] = r]

\* get_socket, line 72: socket = context.socket(type).
S_context_socket(t) ==
    /\ pc[t] = "socket"
    /\ socks' = Append(socks, context_socket(largs[t][2]))
    /\ lsocket' = [lsocket EXCEPT ![t] = Len(socks) + 1]
    /\ pc' = [pc EXCEPT ![t] = "address"]
    /\ UNCHANGED <<s_sockets, s_poller, op, largs, rx, ret, m_vars, it, env>>

\* get_socket, line 73: socket.address = caddress (connects or binds).  No
\* caller catches the transport's error, and the socket, which only the
\* local variable referred to, is freed.
S_set_address(t) ==
    /\ pc[t] = "address"
    /\ \E ok \in TransportOutcomes(largs[t][2], largs[t][1]) :
        IF ok
        THEN /\ socks' = [socks EXCEPT ![lsocket[t]] =
                            Socket_set_address(@, largs[t][1], ok)]
             /\ pc' = [pc EXCEPT ![t] = "register"]
             /\ UNCHANGED <<largs, lsocket, ret>>
        ELSE /\ socks' = Discard(lsocket[t])
             /\ S_leave(t, Raised(largs[t], "ZMQError"))
    /\ UNCHANGED <<s_sockets, s_poller, op, rx, m_vars, it, env>>

\* get_socket, line 74: self._poller.register(socket), whatever its type.
S_register(t) ==
    /\ pc[t] = "register"
    /\ s_poller' = s_poller \cup {lsocket[t]}
    /\ pc' = [pc EXCEPT ![t] = "insert"]
    /\ UNCHANGED <<socks, s_sockets, op, largs, lsocket, rx, ret, m_vars, it, env>>

\* get_socket, line 79: self._sockets[(caddress, type)] = socket.
S_insert(t) ==
    /\ pc[t] = "insert"
    /\ s_sockets' = [s_sockets EXCEPT ![largs[t]] = lsocket[t]]
    /\ pc' = [pc EXCEPT ![t] = "return"]
    /\ UNCHANGED <<socks, s_poller, op, largs, lsocket, rx, ret, m_vars, it, env>>

\* Where the caller of get_socket goes on with the socket it got.
AfterGetSocket(f) ==
    IF f = "wait_for_message" THEN "receive"
    ELSE IF f = "wait_for_notification" THEN "subscribe"
    ELSE "send"

\* get_socket, line 80: return self._sockets[(caddress, type)], to the
\* module's caller or to the function that asked for the socket.
S_return(t) ==
    /\ pc[t] = "return"
    /\ IF op[t] = "get_socket"
       THEN S_leave(t, Returned(largs[t], s_sockets[largs[t]]))
       ELSE /\ lsocket' = [lsocket EXCEPT ![t] = s_sockets[largs[t]]]
            /\ pc' = [pc EXCEPT ![t] = AfterGetSocket(op[t])]
            /\ UNCHANGED <<largs, ret>>
    /\ UNCHANGED <<socks, s_sockets, s_poller, op, rx, m_vars, it, env>>

\* socket.send(...), lines 126, 131 and 135.  zmq refuses a send on a REQ
\* or REP socket that is not in its sending state.  send_message goes on to
\* receive; send_reply and send_notification return what send returned.
S_send(t) ==
    /\ pc[t] = "send"
    /\ IF Writable(lsocket[t])
       THEN /\ socks' = [socks EXCEPT ![lsocket[t]] = socket_send(@)]
            /\ IF op[t] = "send_message"
               THEN /\ pc' = [pc EXCEPT ![t] = "receive"]
                    /\ UNCHANGED <<largs, lsocket, ret>>
               ELSE S_leave(t, Value(largs[t], "None"))
       ELSE /\ socks' = socks
            /\ S_leave(t, Raised(largs[t], "ZMQError"))
    /\ UNCHANGED <<s_sockets, s_poller, op, rx, m_vars, it, env>>

\* wait_for_notification, line 139: socket.set(zmq.SUBSCRIBE,
\* topic.encode(config.ENCODING)) adds the prefix to those the socket has
\* subscribed to.
S_subscribe(t) ==
    /\ pc[t] = "subscribe"
    /\ socks' = [socks EXCEPT ![lsocket[t]].subs = @ \cup {str_encode(rx[t].topic)}]
    /\ pc' = [pc EXCEPT ![t] = "receive"]
    /\ UNCHANGED <<s_sockets, s_poller, op, largs, lsocket, rx, ret,
                   m_vars, it, env>>

\* _receive_with_timeout, lines 104-109: the timeout in ms and the
\* generator of its intervals.
S_receive_with_timeout(t) ==
    /\ pc[t] = "receive"
    /\ rx' = [rx EXCEPT ![t].gen = intervals_ms(to_timeout_ms(rx[t].timeout_secs))]
    /\ pc' = [pc EXCEPT ![t] = "poll"]
    /\ UNCHANGED <<socks, s_sockets, s_poller, op, largs, lsocket, ret,
                   m_vars, it, env>>

\* OnTimeout with wait_for_message letting the error through.
OnTimeout_message_raises(f, k) ==
    IF f = "wait_for_notification" THEN Value(k, "(None, None)")
    ELSE Raised(k, "SocketTimedOutError")

\* OnTimeout with wait_for_notification letting the error through.
OnTimeout_notification_raises(f, k) ==
    IF f = "wait_for_message" THEN Value(k, "None")
    ELSE Raised(k, "SocketTimedOutError")

\* What a function does with SocketTimedOutError: wait_for_message returns
\* None (line 122), wait_for_notification (None, None) (line 145), and
\* send_message lets it through.
OnTimeout(f, k) ==
    IF f = "wait_for_message" THEN Value(k, "None")
    ELSE IF f = "wait_for_notification" THEN Value(k, "(None, None)")
    ELSE Raised(k, "SocketTimedOutError")

\* Received with the message dropped: the function returns None.
Received_dropped(f, k, message_bytes) == Value(k, "None")

\* What function f returns for the bytes its receive returned: the pair
\* _unserialise_for_pubsub gives (lines 142-143), or what _unserialise
\* gives (lines 120 and 127).
Received(f, k, message_bytes) ==
    IF f = "wait_for_notification"
    THEN LET pair == unserialise_for_pubsub(message_bytes)
         IN IF pair.err # "" THEN Raised(k, pair.err)
            ELSE News(k, pair.topic, pair.data)
    ELSE Message(k, unserialise(message_bytes))

\* _receive_with_timeout, lines 109-114, one turn of the loop: the next
\* interval, one poll of the shared poller for that long, and the receive
\* if the socket is among the ready ones; SocketTimedOutError when the
\* intervals have run out.  recv on a socket that is ready only to send
\* raises zmq's error.
S_poll(t) ==
    /\ pc[t] = "poll"
    /\ IF gen_exhausted(rx[t].gen)
       THEN /\ S_leave(t, OnTimeout(op[t], largs[t]))
            /\ rx' = [rx EXCEPT ![t] = [Ended(@) EXCEPT !.timedout = TRUE]]
            /\ socks' = socks
       ELSE LET interval_ms == gen_yield(rx[t].gen)
                polled == [rx[t] EXCEPT !.gen = gen_advance(@),
                                        !.interval = interval_ms,
                                        !.npolls = IF @ < MaxPolls THEN @ + 1 ELSE @,
                                        !.others = poll(s_poller) \ {lsocket[t]} # {},
                                        !.elapsed =
                                            IF rx[t].npolls < MaxPolls
                                            THEN @ + poll_wait(poll(s_poller), interval_ms)
                                            ELSE @]
            IN IF lsocket[t] \in poll(s_poller)
               THEN /\ rx' = [rx EXCEPT ![t] = Ended(polled)]
                    /\ IF Readable(lsocket[t])
                       THEN /\ socks' = after_recv(lsocket[t])
                            /\ S_leave(t, Received(op[t], largs[t],
                                                    Head(socks[lsocket[t]].inbox)))
                       ELSE /\ socks' = socks
                            /\ S_leave(t, Raised(largs[t], "ZMQError"))
               ELSE /\ rx' = [rx EXCEPT ![t] = polled]
                    /\ UNCHANGED <<socks, pc, largs, lsocket, ret>>
    /\ UNCHANGED <<s_sockets, s_poller, op, m_vars, it, env>>

S_step(t) ==
    \/ S_context_socket(t)
    \/ S_set_address(t)
    \/ S_register(t)
    \/ S_insert(t)
    \/ S_return(t)

\* One caller at a time: the get_socket calls of the main thread.
SocketsNext ==
    \/ \E a \in RawAddresses, ty \in Types : S_get_socket(MainThread, a, ty)
    \/ S_step(MainThread)

SocketsSpec == Init /\ [][SocketsNext]_vars

\* Several callers at once: every thread calls get_socket, and the steps of
\* the calls interleave (the code takes no lock).
RaceNext ==
    \E t \in Threads :
        \/ \E a \in RawAddresses, ty \in Types : S_get_socket(t, a, ty)
        \/ S_step(t)

RaceSpec == Init /\ [][RaceNext]_vars

\* One caller at a time: the sending and receiving functions of sockets.py,
\* called by the main thread while peers' messages arrive.
RecvNext ==
    \/ \E a \in VerbAddresses, s \in TimeoutSecs :
        S_wait_for_message(MainThread, a, s)
    \/ \E a \in VerbAddresses, s \in TimeoutSecs :
        S_send_message(MainThread, a, s)
    \/ \E a \in VerbAddresses : S_send_reply(MainThread, a)
    \/ \E a \in VerbAddresses : S_send_notification(MainThread, a)
    \/ \E a \in VerbAddresses, topic \in Patterns, s \in TimeoutSecs :
        S_wait_for_notification(MainThread, a, topic, s)
    \/ S_step(MainThread)
    \/ S_send(MainThread)
    \/ S_subscribe(MainThread)
    \/ S_receive_with_timeout(MainThread)
    \/ S_poll(MainThread)
    \/ \E i \in 1 .. MaxSockets : Deliver(i)

RecvSpec == Init /\ [][RecvNext]_vars

\* ------------------------------------------------------------ intervals_ms alone
\* A call intervals_ms(timeout_ms) for any timeout up to MaxTimeoutMs.
I_intervals_ms(timeout_ms) ==
    /\ it.gen = NoGen
    /\ it' = [timeout_ms |-> timeout_ms, gen |-> intervals_ms(timeout_ms),
              yielded |-> <<>>]
    /\ UNCHANGED <<socks, s_vars, m_vars, env>>

\* next() on the generator: it yields an interval.
I_next ==
    /\ it.gen.stage = "run"
    /\ it.gen.forever => Len(it.yielded) < MaxPolls
    /\ it' = [it EXCEPT !.gen = gen_advance(@),
                        !.yielded = Append(@, gen_yield(it.gen))]
    /\ UNCHANGED <<socks, s_vars, m_vars, env>>

IntervalsNext ==
    \/ \E ms \in (0 .. MaxTimeoutMs) \cup {FOREVER} : I_intervals_ms(ms)
    \/ I_next

IntervalsSpec == Init /\ [][IntervalsNext]_vars

\* ------------------------------------------------------------ the envelope alone
\* send_notification, line 135: the bytes that are sent for a topic and data.
P_serialise_for_pubsub(topic, data) ==
    /\ env.stage # "sent"
    /\ env' = [NoEnvelope EXCEPT !.stage = "sent", !.topic = topic, !.data = data,
                                 !.bytes = serialise_for_pubsub(topic, data)]
    /\ UNCHANGED <<socks, s_vars, m_vars, it>>

\* wait_for_notification, line 142: what the bytes received give.
P_unserialise_for_pubsub ==
    /\ env.stage = "sent"
    /\ env' = [env EXCEPT !.stage = "received",
                          !.out = unserialise_for_pubsub(env.bytes)]
    /\ UNCHANGED <<socks, s_vars, m_vars, it>>

EnvelopeNext ==
    \/ \E topic \in Topics, data \in Values : P_serialise_for_pubsub(topic, data)
    \/ P_unserialise_for_pubsub

EnvelopeSpec == Init /\ [][EnvelopeNext]_vars

\* ------------------------------------------------------------ messaging.py
\* The call into messaging.py ends with result r.
M_leave(r) ==
    /\ m_pc' = "idle"
    /\ m_args' = NoKey
    /\ m_lsocket' = NoSocket
    /\ m_timeout' = 0
    /\ m_ret' = r

\* Sockets.get_socket(address, type) on behalf of function f, lines 58-70,
\* from entry to return or raise.  The cache is keyed by the address as
\* given; a new socket is cached (line 63) before it connects or binds;
\* only REQ connects, only REP binds, and only those two are registered.
M_enter(f, address, type, timeout_secs) ==
    /\ m_pc = "idle"
    /\ m_op' = f
    /\ LET k == <<address, type>>
           new == Len(socks) + 1
           \* the caller of get_socket goes on with socket s
           GoOn(s) == IF f = "get_socket"
                      THEN M_leave(Returned(k, s))
                      ELSE /\ m_args' = k
                           /\ m_lsocket' = s
                           /\ m_timeout' = timeout_secs
                           /\ m_pc' = IF f \in {"wait_for_request", "wait_for_command"}
                                      THEN "receive" ELSE "send"
                           /\ m_ret' = NoResult
       IN IF m_sockets[address] # NoSocket
          THEN /\ IF socks[m_sockets[address]].type # type
                  THEN M_leave(Raised(k, "SocketAlreadyExistsError"))
                  ELSE GoOn(m_sockets[address])
               /\ UNCHANGED <<socks, m_sockets, m_poller>>
          ELSE /\ Len(socks) < MaxSockets
               /\ m_sockets' = [m_sockets EXCEPT ![address] = new]
               /\ IF type \in {REQ, REP}
                  THEN \E ok \in TransportOutcomes(type, address) :
                        /\ socks' = Append(socks,
                              Socket_set_address(context_socket(type), address, ok))
                        /\ m_poller' = IF ok THEN m_poller \cup {new} ELSE m_poller
                        /\ IF ok THEN GoOn(new)
                                 ELSE M_leave(Raised(k, "ZMQError"))
                  ELSE /\ socks' = Append(socks, context_socket(type))
                       /\ m_poller' = m_poller
                       /\ GoOn(new)
    /\ m_trace' = <<>>
    /\ UNCHANGED <<s_vars, it, env>>

\* Sockets.get_socket(address, type), called for its own sake.
M_get_socket(address, type) ==
    M_enter("get_socket", address, type, 0)

\* Sockets.wait_for_request(address, wait_for_secs), line 83.
M_wait_for_request(address, wait_for_secs) ==
    M_enter("wait_for_request", address, REP, wait_for_secs)

\* Sockets.send_request(address, request, wait_for_reply_secs), line 87.
M_send_request(address, wait_for_reply_secs) ==
    M_enter("send_request", address, REQ, wait_for_reply_secs)

\* Sockets.send_reply(address, reply), line 92.
M_send_reply(address) ==
    M_enter("send_reply", address, REP, 0)

\* send_command(address, command, wait_for_reply_secs), lines 104-106: it
\* calls send_request.
M_send_command(address, wait_for_reply_secs) ==
    M_enter("send_command", address, REQ, wait_for_reply_secs)

\* wait_for_command(address, callback, wait_for_secs), lines 110-111: it
\* calls wait_for_request.
M_wait_for_command(address, wait_for_secs) ==
    M_enter("wait_for_command", address, REP, wait_for_secs)

\* publish_news and wait_for_news, lines 115-119: raise NotImplementedError.
M_not_implemented(f, address, type) ==
    /\ m_pc = "idle"
    /\ m_op' = f
    /\ M_leave(Raised(<<address, type>>, "NotImplementedError"))
    /\ m_trace' = <<>>
    /\ UNCHANGED <<socks, m_sockets, m_poller, s_vars, it, env>>

M_publish_news(address) == M_not_implemented("publish_news", address, PUB)

M_wait_for_news(address) == M_not_implemented("wait_for_news", address, SUB)

\* socket.send(...), lines 88 and 93.  send_request goes on to receive;
\* send_reply returns what send returned, and wait_for_command returns what
\* send_reply returned (line 113).
M_send ==
    /\ m_pc = "send"
    /\ IF Writable(m_lsocket)
       THEN /\ socks' = [socks EXCEPT ![m_lsocket] = socket_send(@)]
            /\ m_trace' = Append(m_trace, [ev |-> "send", sock |-> m_lsocket])
            /\ IF m_op \in {"send_request", "send_command"}
               THEN /\ m_pc' = "receive"
                    /\ UNCHANGED <<m_args, m_lsocket, m_timeout, m_ret>>
               ELSE M_leave(Value(m_args, "None"))
       ELSE /\ socks' = socks
            /\ m_trace' = m_trace
            /\ M_leave(Raised(m_args, "ZMQError"))
    /\ UNCHANGED <<m_sockets, m_poller, m_op, s_vars, it, env>>

\* What function f makes of the outcome r of send_request, lines 105-108:
\* send_command drops the reply and returns None, and it catches
\* exc.SocketTimedOutError, logs a warning and returns None; any other
\* exception goes through it.  The other functions return or raise r.
M_outcome(f, r) ==
    IF f = "send_command" /\ (r.kind = "value" \/ r.err = "SocketTimedOutError")
    THEN Value(r.key, "None")
    ELSE r

\* wait_for_command that sends the reply without calling the callback.
M_after_command_no_callback(f) == IF f = "wait_for_command" THEN "send" ELSE "idle"

\* Where function f goes on once its receive has returned a message:
\* wait_for_command calls the callback (line 112), the others return.
M_after_command(f) == IF f = "wait_for_command" THEN "callback" ELSE "idle"

\* The receive of the call ends with outcome r, having done event ev.
M_received(r, ev) ==
    /\ m_trace' = Append(m_trace, [ev |-> ev, sock |-> m_lsocket])
    /\ IF r.kind = "value" /\ M_after_command(m_op) # "idle"
       THEN /\ m_pc' = M_after_command(m_op)
            /\ UNCHANGED <<m_args, m_lsocket, m_timeout, m_ret>>
       ELSE M_leave(M_outcome(m_op, r))

\* _receive_with_timeout, lines 73-80.  With FOREVER the caller enters
\* socket.recv() (line 74).  Otherwise one poll of the shared poller for the
\* whole timeout, then the receive if the socket is among the ready ones
\* (recv on a socket that is ready only to send raises zmq's error); if it
\* is not, line 80 raises the name SocketTimedOutError, which messaging.py
\* neither defines nor imports: a NameError.
M_receive_with_timeout ==
    /\ m_pc = "receive"
    /\ IF m_timeout = FOREVER
       THEN /\ m_pc' = "recv"
            /\ UNCHANGED <<socks, m_args, m_lsocket, m_timeout, m_ret, m_trace>>
       ELSE IF m_lsocket \in poll(m_poller)
            THEN IF Readable(m_lsocket)
                 THEN /\ socks' = after_recv(m_lsocket)
                      /\ M_received(Value(m_args, "message"), "recv")
                 ELSE /\ socks' = socks
                      /\ M_received(Raised(m_args, "ZMQError"), "refused")
            ELSE /\ socks' = socks
                 /\ M_received(Raised(m_args, "NameError"), "timeout")
    /\ UNCHANGED <<m_sockets, m_poller, m_op, s_vars, it, env>>

\* socket.recv() of line 74 returns: a message has arrived, or the socket
\* is in its sending state and zmq raises.  Until then the caller stays
\* inside this one call.
M_recv ==
    /\ m_pc = "recv"
    /\ Readable(m_lsocket) \/ Writable(m_lsocket)
    /\ IF Readable(m_lsocket)
       THEN /\ socks' = after_recv(m_lsocket)
            /\ M_received(Value(m_args, "message"), "recv")
       ELSE /\ socks' = socks
            /\ M_received(Raised(m_args, "ZMQError"), "refused")
    /\ UNCHANGED <<m_sockets, m_poller, m_op, s_vars, it, env>>

\* wait_for_command, lines 112-113: reply = callback(command), and then
\* send_reply(address, reply), whose get_socket (lines 58-61, 70) finds the
\* socket cached for the address.  An exception of the callback goes
\* through wait_for_command.
M_callback ==
    /\ m_pc = "callback"
    /\ m_trace' = Append(m_trace, [ev |-> "callback", sock |-> NoSocket])
    /\ \E returns \in BOOLEAN :
        IF returns
        THEN /\ m_lsocket' = m_sockets[m_args[1]]
             /\ m_pc' = "send"
             /\ UNCHANGED <<m_args, m_timeout, m_ret>>
        ELSE M_leave(Raised(m_args, "CallbackError"))
    /\ UNCHANGED <<socks, m_sockets, m_poller, m_op, s_vars, it, env>>

\* The calls of the functions of messaging.py that send and receive, their
\* steps, and the arrival of peers' messages.
M_VerbsNext ==
    \/ \E a \in VerbAddresses, s \in M_TimeoutSecs : M_wait_for_request(a, s)
    \/ \E a \in VerbAddresses, s \in M_TimeoutSecs : M_send_request(a, s)
    \/ \E a \in VerbAddresses : M_send_reply(a)
    \/ \E a \in VerbAddresses, s \in M_TimeoutSecs : M_send_command(a, s)
    \/ \E a \in VerbAddresses, s \in M_TimeoutSecs : M_wait_for_command(a, s)
    \/ \E a \in VerbAddresses : M_publish_news(a)
    \/ \E a \in VerbAddresses : M_wait_for_news(a)
    \/ M_send
    \/ M_receive_with_timeout
    \/ M_recv
    \/ M_callback
    \/ \E i \in 1 .. MaxSockets : Deliver(i)

MessagingNext ==
    \/ \E a \in RawAddresses, ty \in Types : M_get_socket(a, ty)
    \/ M_VerbsNext

MessagingSpec == Init /\ [][MessagingNext]_vars

\* ------------------------------------------------------------ either module
\* No function of sockets.py has been called.
S_unused == /\ \A t \in Threads : op[t] = ""
            /\ \A k \in Keys : s_sockets[k] = NoSocket

\* No function of messaging.py has been called.
M_unused == /\ m_op = ""
            /\ \A a \in RawAddresses : m_sockets[a] = NoSocket

\* A process makes its calls into one of the two modules: it sends and
\* receives with the functions of sockets.py or with those of messaging.py.
EitherNext ==
    \/ M_unused /\ RecvNext
    \/ S_unused /\ M_VerbsNext

EitherSpec == Init /\ [][EitherNext]_vars
\* ------------------------------------------------------------ properties
BindTypes == {REP, PUB}
ConnectTypes == {REQ, SUB}
PolledTypes == {REQ, REP, SUB}

OtherBindType(type) == IF type = REP THEN PUB ELSE REP
OtherConnectType(type) == IF type = REQ THEN SUB ELSE REQ

\* The sockets of type k[2] that have bound or connected to address k[1].
EndpointsOf(k) ==
    {i \in DOMAIN socks :
        /\ socks[i].type = k[2]
        /\ socks[i].connected \/ socks[i].bound
        /\ core_address(socks[i].address) = k[1]}

\* The sockets messaging.Sockets caches for the normalised key k.
M_CachedFor(k) ==
    {m_sockets[a] : a \in {x \in RawAddresses :
        /\ m_sockets[x] # NoSocket
        /\ core_address(x) = k[1]
        /\ socks[m_sockets[x]].type = k[2]}}

\* The socket has done what its type prescribes, and only that.
RoleOpDone(i) ==
    IF socks[i].type \in ConnectTypes
    THEN socks[i].connected /\ ~socks[i].bound
    ELSE socks[i].bound /\ ~socks[i].connected

AllIdle == \A t \in Threads : pc[t] = "idle"

RECURSIVE SeqSum(_)
SeqSum(s) == IF s = <<>> THEN 0 ELSE Head(s) + SeqSum(Tail(s))

\* The number of whole try_length_ms intervals that fit in T ms.
WholeIntervals(T) ==
    CHOOSE n \in 0 .. T : n * try_length_ms <= T /\ T < (n + 1) * try_length_ms

\* The last call of thread t was a receive that ran out of time.
TimedOut(t) ==
    \/ op[t] = "wait_for_message" /\ ret[t].val = "None"
    \/ op[t] = "wait_for_notification" /\ ret[t].val = "(None, None)"
    \/ op[t] = "send_message" /\ ret[t].err = "SocketTimedOutError"

\* C1: calls made one after another leave at most one endpoint per
\* (normalised address, type) key, and a call that returns a socket returns
\* the one the registry caches for the key.
C1_OneEndpointPerKey ==
    /\ \A k \in Keys : Cardinality(EndpointsOf(k)) <= 1
    /\ \A t \in Threads :
        ret[t].kind = "socket" => ret[t].sock = s_sockets[ret[t].key]
    /\ m_ret.kind = "socket" => m_ret.sock = m_sockets[m_ret.key[1]]

\* C2: whatever the interleaving of concurrent get_socket calls, one key
\* never has two endpoints, and two callers that were returned a socket for
\* the same key were returned the same socket.
C2_ConcurrentCallersShareOneEndpoint ==
    /\ \A k \in Keys : Cardinality(EndpointsOf(k)) <= 1
    /\ \A t, u \in Threads :
        (/\ ret[t].kind = "socket"
         /\ ret[u].kind = "socket"
         /\ ret[t].key = ret[u].key) => ret[t].sock = ret[u].sock

\* C3: after a call that ended in a failed bind or connect the registry has
\* no entry for the key of that call.
C3_FailedCreationLeavesNoEntry ==
    /\ \A t \in Threads :
        ret[t].err = "ZMQError" => s_sockets[ret[t].key] = NoSocket
    /\ m_ret.err = "ZMQError" => m_sockets[m_ret.key[1]] = NoSocket

\* C4: a call for a binding type on an address that is cached under the
\* other binding type ends in the role-conflict error
\* (SocketAlreadyExistsError) and adds no cache entry.
C4_ConflictingRoleRaises ==
    /\ \A t \in Threads :
        (/\ ret[t].kind # "none"
         /\ ret[t].key[2] \in BindTypes
         /\ s_sockets[<<ret[t].key[1], OtherBindType(ret[t].key[2])>>] # NoSocket)
        => (/\ ret[t].err = "SocketAlreadyExistsError"
            /\ s_sockets[ret[t].key] = NoSocket)
    /\ (/\ m_ret.kind # "none"
        /\ m_ret.key[2] \in BindTypes
        /\ M_CachedFor(<<core_address(m_ret.key[1]),
                         OtherBindType(m_ret.key[2])>>) # {})
       => (/\ m_ret.err = "SocketAlreadyExistsError"
           /\ M_CachedFor(<<core_address(m_ret.key[1]), m_ret.key[2]>>) = {})

\* C5: a call for REQ (or SUB) on an address that is cached under SUB (or
\* REQ) does not end in the role-conflict error.
C5_ConnectRolesCoexist ==
    /\ \A t \in Threads :
        (/\ ret[t].key[2] \in ConnectTypes
         /\ s_sockets[<<ret[t].key[1], OtherConnectType(ret[t].key[2])>>] # NoSocket)
        => ret[t].err # "SocketAlreadyExistsError"
    /\ (/\ m_ret.key[2] \in ConnectTypes
        /\ M_CachedFor(<<core_address(m_ret.key[1]),
                         OtherConnectType(m_ret.key[2])>>) # {})
       => m_ret.err # "SocketAlreadyExistsError"

\* C6: a socket that get_socket returns has connected and never bound if it
\* is REQ or SUB, and has bound and never connected if it is REP or PUB.
C6_ReturnedEndpointDidItsRoleOp ==
    /\ \A t \in Threads : ret[t].kind = "socket" => RoleOpDone(ret[t].sock)
    /\ m_ret.kind = "socket" => RoleOpDone(m_ret.sock)

\* C7: between calls, the poller holds exactly the cached sockets of type
\* REQ, REP or SUB; a PUB socket is never registered.
C7_PollSetIsCachedPolledTypes ==
    /\ AllIdle =>
        s_poller = {s_sockets[k] : k \in {x \in Keys :
                        s_sockets[x] # NoSocket /\ x[2] \in PolledTypes}}
    /\ m_poller = {m_sockets[a] : a \in {x \in RawAddresses :
                        /\ m_sockets[x] # NoSocket
                        /\ socks[m_sockets[x]].type \in PolledTypes}}

\* C8: for a finite timeout of T ms, intervals_ms yields floor(T / 500)
\* intervals of 500 ms and then T mod 500; no interval exceeds 500 ms and,
\* once the generator is exhausted, the intervals add up to T.
C8_IntervalsSumToTimeout ==
    (it.gen # NoGen /\ it.timeout_ms # FOREVER) =>
        LET T == it.timeout_ms
            n == WholeIntervals(T)
        IN /\ Len(it.yielded) <= n + 1
           /\ \A i \in 1 .. Len(it.yielded) :
                /\ it.yielded[i] <= try_length_ms
                /\ it.yielded[i] = IF i <= n THEN try_length_ms
                                            ELSE T - n * try_length_ms
           /\ gen_exhausted(it.gen) =>
                /\ Len(it.yielded) = n + 1
                /\ SeqSum(it.yielded) = T

C8_Witness ==
    /\ it.timeout_ms = 1200
    /\ gen_exhausted(it.gen)
    /\ it.yielded = <<500, 500, 200>>

\* C9 as claimed: no poll of a receive has a 0 ms wait (intervals_ms
\* yields no 0 ms interval).
C9_ZeroIntervalSkipped ==
    \A t \in Threads : rx[t].npolls > 0 => rx[t].interval # 0

\* C9, amended: when the timeout is a finite multiple of try_length_ms
\* (0 included) the final 0 ms interval is yielded and polled: a receive that
\* has timed out did T / 500 + 1 polls, the last with a 0 ms wait; and a
\* 0 ms wait occurs only as that last poll.
C9_ZeroIntervalPolledLast ==
    \A t \in Threads :
        LET T == to_timeout_ms(rx[t].timeout_secs) IN
        /\ (/\ TimedOut(t)
            /\ T % try_length_ms = 0)
           => (/\ rx[t].interval = 0
               /\ rx[t].npolls = WholeIntervals(T) + 1)
        /\ (rx[t].npolls > 0 /\ rx[t].interval = 0)
           => (/\ T # FOREVER
               /\ T % try_length_ms = 0
               /\ rx[t].npolls = WholeIntervals(T) + 1)

C9_Witness ==
    /\ TimedOut(MainThread)
    /\ rx[MainThread].timeout_secs = 1000000
    /\ rx[MainThread].npolls = 3
    /\ rx[MainThread].interval = 0

\* C10: a receive with the FOREVER timeout never times out, polls only in
\* intervals of try_length_ms, and is never inside a bare socket.recv()
\* instead of the polling loop.
C10_ForeverReceivePollsInIntervals ==
    /\ \A t \in Threads :
        rx[t].timeout_secs = FOREVER =>
            /\ ~TimedOut(t)
            /\ rx[t].npolls > 0 => rx[t].interval = try_length_ms
    /\ m_timeout = FOREVER => m_pc # "recv"

\* C11: a receive with a finite timeout of T ms that has timed out spent at
\* least T ms and less than T + try_length_ms in its polls, whatever the
\* readiness of the other registered sockets.
C11_TimesOutWithinOneIntervalOfTimeout ==
    \A t \in Threads :
        LET T == to_timeout_ms(rx[t].timeout_secs) IN
        (TimedOut(t) /\ T # FOREVER) =>
            /\ rx[t].elapsed >= T
            /\ rx[t].elapsed < T + try_length_ms

\* C12: a send_request (send_message) whose receive found no reply within
\* its finite timeout ends in the timeout error, and a send_command in the
\* same situation returns without raising.
C12_RequestRaisesCommandReturns ==
    /\ \A t \in Threads :
        (op[t] = "send_message" /\ rx[t].timedout) =>
            ret[t].err = "SocketTimedOutError"
    /\ (/\ m_pc = "idle"
        /\ \E i \in DOMAIN m_trace :
              m_trace[i].ev = "timeout" /\ socks[m_trace[i].sock].connected)
       => (/\ m_op = "send_request" => m_ret.err = "SocketTimedOutError"
           /\ m_op = "send_command" => m_ret.kind = "value")

\* C16: for a topic whose encoding holds no delimiter byte and for any data
\* (the bytes of the data may hold the delimiter), unserialising the
\* serialised notification gives back the topic and the data.
C16_EnvelopeRoundTrip ==
    (/\ env.stage = "received"
     /\ Delimiters(str_encode(env.topic)) = {})
    => (/\ env.out.err = ""
        /\ env.out.topic = env.topic
        /\ env.out.data = env.data)

C16_Witness ==
    /\ env.stage = "received"
    /\ env.topic = <<97, 233>>
    /\ env.data = 256
    /\ Cardinality(Delimiters(env.bytes)) > 1
    /\ env.out = [err |-> "", topic |-> <<97, 233>>, data |-> 256]

\* C15: the pair that a wait_for_notification returns has a topic that
\* begins with the topic that call was given.
C15_ReturnedTopicMatchesPattern ==
    \A t \in Threads :
        (op[t] = "wait_for_notification" /\ ret[t].val = "(topic, data)") =>
            IsPrefix(rx[t].topic, ret[t].topic)

\* The events of the call into messaging.py so far, in order.
M_events == [i \in DOMAIN m_trace |-> m_trace[i].ev]

M_TimedOut ==
    /\ m_pc = "idle"
    /\ \E i \in DOMAIN m_trace : m_trace[i].ev = "timeout"

NotificationEnded(t) ==
    op[t] = "wait_for_notification" /\ pc[t] = "idle" /\ ret[t].kind # "none"

\* What holds of a wait_for_notification that has ended: the timeout error
\* does not leave it; it returns (None, None) if and only if its receive
\* timed out; an error comes from get_socket alone; and what it returns
\* otherwise is the topic and the data of news that was published.
NotificationOutcome(t) ==
    /\ ret[t].err # "SocketTimedOutError"
    /\ rx[t].timedout <=> ret[t].val = "(None, None)"
    /\ ret[t].kind = "error" => rx[t].npolls = 0
    /\ (ret[t].kind = "value" /\ ~rx[t].timedout) =>
          /\ ret[t].val = "(topic, data)"
          /\ ret[t].topic \in NewsTopics
          /\ ret[t].data \in Payloads

\* C14 as claimed: a wait_for_news (wait_for_notification) returns
\* (None, None) when its receive times out and the pair of topic and news
\* otherwise, and the timeout never leaves it as an error; the function of
\* either module returns a value.
C14_NewsReturnsPairOrNonePair ==
    /\ \A t \in Threads : NotificationEnded(t) => NotificationOutcome(t)
    /\ (m_op = "wait_for_news" /\ m_pc = "idle") => m_ret.kind = "value"

\* C14, amended: that holds of wait_for_notification of sockets.py, and
\* wait_for_news of messaging.py raises NotImplementedError.
C14_NotificationReturnsPairOrNonePair ==
    /\ \A t \in Threads : NotificationEnded(t) => NotificationOutcome(t)
    /\ (m_op = "wait_for_news" /\ m_pc = "idle") =>
            m_ret.err = "NotImplementedError"

C14_Witness ==
    /\ NotificationEnded(MainThread)
    /\ rx[MainThread].timedout
    /\ rx[MainThread].timeout_secs = 200500
    /\ ret[MainThread].val = "(None, None)"
    /\ socks[s_sockets[ret[MainThread].key]].subs = {<<97>>}

\* The sockets that are in the table before and after a step.
Kept == DOMAIN socks \cap DOMAIN socks'

\* Thread t is in the receive of wait_for_message on socket i.
S_Waiting(t, i) ==
    pc[t] = "poll" /\ op[t] = "wait_for_message" /\ lsocket[t] = i

\* The caller of messaging.py is in the receive of wait_for_request, or of
\* the wait_for_request of wait_for_command, on socket i.
M_Waiting(i) ==
    /\ m_pc \in {"receive", "recv"}
    /\ m_op \in {"wait_for_request", "wait_for_command"}
    /\ m_lsocket = i

C18_ReturnsAtFirstReadyPollOrTimesOut ==
    \A t \in Threads :
        (pc[t] = "idle" /\ rx[t].npolls > 0) =>
            LET T == to_timeout_ms(rx[t].timeout_secs) IN
            \/ /\ rx[t].timedout
               /\ T # FOREVER
               /\ rx[t].npolls = WholeIntervals(T) + 1
               /\ ret[t] = OnTimeout(op[t], ret[t].key)
            \/ /\ ~rx[t].timedout
               /\ ret[t].kind = "value"
               /\ ret[t].val \in {"message", "(topic, data)"}

\* Socket i is the one a receive in progress was passed.
Target(i) ==
    \/ \E t \in Threads : pc[t] = "poll" /\ lsocket[t] = i
    \/ m_pc \in {"receive", "recv"} /\ m_lsocket = i

\* C20: a receive takes a message from no socket but its own, and only the
\* first of that socket's queue, whatever other sockets the poll reports
\* ready; and a poll made while a message waits on the receive's own
\* socket ends in that message being received.
C20_ReceivesOnlyFromTarget ==
    [][/\ \A i \in Kept :
            ~IsPrefix(socks[i].inbox, socks'[i].inbox) =>
                /\ Target(i)
                /\ socks'[i].inbox = Tail(socks[i].inbox)
                /\ \A j \in Kept \ {i} : socks'[j] = socks[j]
       /\ \A t \in Threads :
            (/\ pc[t] = "poll"
             /\ rx'[t] # rx[t]
             /\ ~gen_exhausted(rx[t].gen)
             /\ Readable(lsocket[t]))
            => (/\ ret'[t] = Received(op[t], largs[t], Head(socks[lsocket[t]].inbox))
                /\ socks'[lsocket[t]].inbox = Tail(socks[lsocket[t]].inbox))
       /\ (/\ m_pc \in {"receive", "recv"}
           /\ m_pc' \notin {"receive", "recv"}
           /\ Readable(m_lsocket)
           /\ m_lsocket \in m_poller)
          => (/\ m_trace' = Append(m_trace, [ev |-> "recv", sock |-> m_lsocket])
              /\ socks'[m_lsocket].inbox = Tail(socks[m_lsocket].inbox))
      ]_vars

C20_Witness ==
    /\ op[MainThread] = "wait_for_message"
    /\ ret[MainThread].val = "message"
    /\ rx[MainThread].others
    /\ \E j \in s_poller :
          /\ j # s_sockets[ret[MainThread].key]
          /\ socks[j].inbox # <<>>
          /\ socks[j].fsm = "recv"
====
